---- MODULE Spec2Model ----
(***************************************************************************)
(* Model of the perception-and-decision core of loopgrab (src/main.cpp):   *)
(* the Rect geometry, the colour-region finder, the ball detector, the     *)
(* field calibration and the per-frame step of class Game, driven by the   *)
(* polling loop of main().                                                 *)
(***************************************************************************)
EXTENDS Integers, Sequences, FiniteSets, TLC

(* ------------------------------------------------------------------ *)
(* Bounds of the model                                                 *)
(* ------------------------------------------------------------------ *)

\* raster size handed to the Game constructor (root window size in main)
width == 64
height == 66

\* number of step calls explored
MaxFrames == 5

\* range of the whole-second clock time(NULL)
MaxTime == 2

\* values of the constructor argument deadzoneFrames
DeadzoneValues == {1, 3}

(* ------------------------------------------------------------------ *)
(* Pixel                                                               *)
(* ------------------------------------------------------------------ *)

\* Pixel(b, g, r, a): the packed 32-bit value
PixelValue(b, g, r, a) == (a * 16777216) + (r * 65536) + (g * 256) + b

fieldColor == PixelValue(246, 249, 251, 0)
ballColor == PixelValue(81, 61, 44, 0)

\* a colour that is neither the field's nor the ball's: Pixel()
otherColor == PixelValue(0, 0, 0, 0)

(* ------------------------------------------------------------------ *)
(* Rect                                                                *)
(* ------------------------------------------------------------------ *)

min(a, b) == IF a < b THEN a ELSE b
max(a, b) == IF a > b THEN a ELSE b

Rect(x0, y0, x1, y1) == [x0 |-> x0, y0 |-> y0, x1 |-> x1, y1 |-> y1]

Width(r) == r.x1 - r.x0
Height(r) == r.y1 - r.y0

\* the rects of the model have x0 <= x1, so C++ division equals \div
centerX(r) == r.x0 + (Width(r) \div 2)
centerY(r) == r.y0 + (Height(r) \div 2)

contains(r, x, y) == x >= r.x0 /\ x < r.x1 /\ y >= r.y0 /\ y < r.y1

\* add taking the other rect's x0 as it is
add_TakeOtherX0(r, other) ==
    Rect(other.x0, min(other.y0, r.y0),
         max(other.x1, r.x1), max(other.y1, r.y1))

add(r, other) ==
    Rect(min(other.x0, r.x0), min(other.y0, r.y0),
         max(other.x1, r.x1), max(other.y1, r.y1))

(* ------------------------------------------------------------------ *)
(* Game: clamping                                                      *)
(* ------------------------------------------------------------------ *)

\* limit clamping to the last pixel instead of one past it
limit_LastPixel(r) ==
    LET nx0 == min(r.x1, min(width - 1, max(0, r.x0)))
        ny0 == min(r.y1, min(height - 1, max(0, r.y0)))
        nx1 == max(nx0, min(width - 1, max(0, r.x1)))
        ny1 == max(ny0, min(height - 1, max(0, r.y1)))
    IN Rect(nx0, ny0, nx1, ny1)

limit(r) ==
    LET nx0 == min(r.x1, min(width, max(0, r.x0)))
        ny0 == min(r.y1, min(height, max(0, r.y0)))
        nx1 == max(nx0, min(width, max(0, r.x1)))
        ny1 == max(ny0, min(height, max(0, r.y1)))
    IN Rect(nx0, ny0, nx1, ny1)

\* expand without the clamp to the raster
expand_NoClamp(r) == Rect(r.x0 - 1, r.y0 - 1, r.x1 + 1, r.y1 + 1)

\* the rect left in r by expand(r)
expand(r) == limit(Rect(r.x0 - 1, r.y0 - 1, r.x1 + 1, r.y1 + 1))

\* the rect left in r by shrink(r)
shrink(r) == limit(Rect(r.x0 + 1, r.y0 + 1, r.x1 - 1, r.y1 - 1))

(* ------------------------------------------------------------------ *)
(* Frames: the rasters the frame source can deliver                    *)
(* ------------------------------------------------------------------ *)

\* a round token of n x n pixels at (bx, by): the square with its four
\* corners cut off
InDisc(bx, by, n, x, y) ==
    /\ x >= bx /\ x < bx + n /\ y >= by /\ y < by + n
    /\ LET dx == min(x - bx, (bx + n - 1) - x)
           dy == min(y - by, (by + n - 1) - y)
       IN dx + dy >= 2

\* the border line of the box lying halo pixels outside the token's box
OnHalo(bx, by, n, halo, x, y) ==
    LET hx0 == bx - halo
        hy0 == by - halo
        hx1 == (bx + n - 1) + halo
        hy1 == (by + n - 1) + halo
    IN /\ x >= hx0 /\ x <= hx1 /\ y >= hy0 /\ y <= hy1
       /\ (x = hx0 \/ x = hx1 \/ y = hy0 \/ y = hy1)

\* n = 0: no token.  bg: the colour around it.  halo > 0: a line of
\* otherColor around the token at that distance (the token has reached
\* the coloured arc of the game), without its top side when gap is set.
Frame(bx, by, n, bg, halo, gap) ==
    [bx |-> bx, by |-> by, n |-> n, bg |-> bg, halo |-> halo, gap |-> gap]

NoBall == Frame(0, 0, 0, fieldColor, 0, FALSE)
BallA == Frame(6, 6, 6, fieldColor, 0, FALSE)
BallBig == Frame(5, 5, 8, fieldColor, 0, FALSE)
BallB == Frame(52, 52, 6, fieldColor, 0, FALSE)
BallBHalo4 == Frame(52, 52, 6, fieldColor, 4, FALSE)
BallBHalo3 == Frame(52, 52, 6, fieldColor, 3, FALSE)
BallBGap == Frame(52, 52, 6, fieldColor, 4, TRUE)
BallEdge == Frame(56, 56, 6, fieldColor, 0, FALSE)

Frames == {NoBall, BallA, BallBig, BallB, BallBHalo4, BallBHalo3,
           BallBGap, BallEdge}

\* A raster given pixel by pixel: the pixels <<y, x>> of pix have the
\* colour fg, every other pixel has the colour bg.
Raster(pix, fg, bg) == [pix |-> pix, fg |-> fg, bg |-> bg]

isRaster(f) == "pix" \in DOMAIN f

\* the pixels <<y, x>> of frame f that are ball coloured
BallPixels(f) ==
    IF isRaster(f) THEN (IF f.fg = ballColor THEN f.pix ELSE {})
    ELSE
    {p \in (f.by .. (f.by + f.n - 1)) \X (f.bx .. (f.bx + f.n - 1)) :
        InDisc(f.bx, f.by, f.n, p[2], p[1])}

\* GameFrame::getPixel
getPixel(f, x, y) ==
    IF isRaster(f) THEN (IF <<y, x>> \in f.pix THEN f.fg ELSE f.bg)
    ELSE IF f.n > 0 /\ InDisc(f.bx, f.by, f.n, x, y) THEN ballColor
    ELSE IF f.halo > 0 /\ OnHalo(f.bx, f.by, f.n, f.halo, x, y)
                       /\ ~(f.gap /\ y = f.by - f.halo)
         THEN otherColor
    ELSE f.bg

(* ------------------------------------------------------------------ *)
(* Colour-region finder                                                *)
(* ------------------------------------------------------------------ *)

topContainsColor(f, r, color) ==
    \E x \in r.x0 .. (r.x1 - 1) : getPixel(f, x, r.y0) = color

bottomContainsColor(f, r, color) ==
    \E x \in r.x0 .. (r.x1 - 1) : getPixel(f, x, r.y1) = color

leftContainsColor(f, r, color) ==
    \E y \in r.y0 .. (r.y1 - 1) : getPixel(f, r.x0, y) = color

rightContainsColor(f, r, color) ==
    \E y \in r.y0 .. (r.y1 - 1) : getPixel(f, r.x1, y) = color

\* The four sides of one pass of the do/while body: r0 is the rect at the
\* start of the pass, r is r1 so far; the value is r1 after this side.
growLeft(f, r0, r, color) ==
    IF leftContainsColor(f, [r EXCEPT !.x0 = max(0, r.x0 - 1)], color)
    THEN [r EXCEPT !.x0 = max(0, r.x0 - 1)]
    ELSE [r EXCEPT !.x0 = r0.x0]

growTop(f, r0, r, color) ==
    IF topContainsColor(f, [r EXCEPT !.y0 = max(0, r.y0 - 1)], color)
    THEN [r EXCEPT !.y0 = max(0, r.y0 - 1)]
    ELSE [r EXCEPT !.y0 = r0.y0]

\* the right side moved back by one column, down to x0, when the column
\* tried holds no pixel of the colour
growRight_RetreatOnMiss(f, r0, r, color) ==
    IF rightContainsColor(f, [r EXCEPT !.x1 = min(width - 1, r.x1 + 1)], color)
    THEN [r EXCEPT !.x1 = min(width - 1, r.x1 + 1)]
    ELSE [r EXCEPT !.x1 = max(r.x0, r0.x1 - 1)]

growRight(f, r0, r, color) ==
    IF rightContainsColor(f, [r EXCEPT !.x1 = min(width - 1, r.x1 + 1)], color)
    THEN [r EXCEPT !.x1 = min(width - 1, r.x1 + 1)]
    ELSE [r EXCEPT !.x1 = r0.x1]

growBottom(f, r0, r, color) ==
    IF bottomContainsColor(f, [r EXCEPT !.y1 = min(height - 1, r.y1 + 1)], color)
    THEN [r EXCEPT !.y1 = min(height - 1, r.y1 + 1)]
    ELSE [r EXCEPT !.y1 = r0.y1]

\* one pass of the do/while body: r1 at the end of a pass that began at r0
findColorBoundsPass(f, r0, color) ==
    growBottom(f, r0,
        growRight(f, r0,
            growTop(f, r0,
                growLeft(f, r0, r0, color), color), color), color)

\* the loop left after its first pass, whatever that pass changed
findColorBoundsLoop_OnePass(f, r0, r1, color) == r1

\* the do/while loop, r1 being the rect a pass made of r0: the value of
\* r0 when the loop is left
RECURSIVE findColorBoundsLoop(_, _, _, _)
findColorBoundsLoop(f, r0, r1, color) ==
    IF r0 = r1 THEN r0
    ELSE findColorBoundsLoop(f, r1, findColorBoundsPass(f, r1, color), color)

\* what findColorBounds makes of rect when its loop ends at r0
findColorBoundsResult(rect, r0) == [changed |-> (rect # r0), rect |-> r0]

\* findColorBounds: [changed |-> return value, rect |-> rect afterwards]
findColorBounds(f, rect, color) ==
    findColorBoundsResult(rect,
        findColorBoundsLoop(f, rect, findColorBoundsPass(f, rect, color), color))

(* ------------------------------------------------------------------ *)
(* Ball detector                                                       *)
(* ------------------------------------------------------------------ *)

\* isBallSurrounded probing two rings out ("2 pixels outside")
isBallSurrounded_TwoRings(f, b) ==
    LET g == expand(expand(b))
    IN /\ getPixel(f, centerX(g), g.y0) # fieldColor
       /\ getPixel(f, centerX(g), g.y1) # fieldColor
       /\ getPixel(f, g.x0, centerY(g)) # fieldColor
       /\ getPixel(f, g.x1, centerY(g)) # fieldColor

\* isBallSurrounded(frame, ball)
isBallSurrounded(f, b) ==
    LET g == expand(expand(expand(b)))
    IN /\ getPixel(f, centerX(g), g.y0) # fieldColor
       /\ getPixel(f, centerX(g), g.y1) # fieldColor
       /\ getPixel(f, g.x0, centerY(g)) # fieldColor
       /\ getPixel(f, g.x1, centerY(g)) # fieldColor

\* the shape test of checkForBall on the rect r the region finder left
isBallShape(f, r) ==
    /\ Width(r) > 4 /\ Height(r) > 4 /\ Width(r) = Height(r)
    /\ getPixel(f, r.x0, r.y0) # ballColor
    /\ getPixel(f, r.x1, r.y0) # ballColor
    /\ getPixel(f, r.x0, r.y1) # ballColor
    /\ getPixel(f, r.x1, r.y1) # ballColor
    /\ getPixel(f, r.x0 + (Width(r) \div 2), r.y0 + 1) = ballColor
    /\ getPixel(f, r.x0 + (Width(r) \div 2), r.y1 - 1) = ballColor
    /\ getPixel(f, r.x0 + 1, r.y0 + (Height(r) \div 2)) = ballColor
    /\ getPixel(f, r.x1 - 1, r.y0 + (Height(r) \div 2)) = ballColor

\* checkForBall once the seed pixel was ball coloured, fcb being the
\* outcome of findColorBounds on the seed box
checkForBallGrown(f, fcb) ==
    [ok |-> fcb.changed /\ isBallShape(f, fcb.rect), b |-> fcb.rect]

\* checkForBall(frame, x, y, ball): [ok |-> return value, b |-> the rect
\* left in the reference argument]
checkForBall(f, x, y, b) ==
    IF getPixel(f, x, y) # ballColor
    THEN [ok |-> FALSE, b |-> b]
    ELSE checkForBallGrown(f,
             findColorBounds(f, Rect(x, y, x + 1, y + 1), ballColor))

\* whether a for loop from lo, in strides of d, below hi, visits v
onGrid(v, lo, hi, d) == v >= lo /\ v < hi /\ (v - lo) % d = 0

\* The grid points <<y, x>> of the scan over zone whose pixel is ball
\* coloured.  At every other grid point checkForBall returns false at its
\* first test and leaves b alone, so the scan is decided on these.  They
\* are picked among the ball-coloured pixels of the frame.
scanHits(f, zone, bl) ==
    {p \in BallPixels(f) :
        /\ onGrid(p[1], zone.y0, zone.y1, max(1, Height(bl) \div 2))
        /\ onGrid(p[2], zone.x0, zone.x1, max(1, Width(bl) \div 2))}

\* the point of a non-empty set the scan reaches first: row by row
firstPoint(ps) ==
    CHOOSE p \in ps : \A q \in ps :
        p[1] < q[1] \/ (p[1] = q[1] /\ p[2] <= q[2])

\* the two nested for loops of the grid scan over the points ps still
\* ahead, b being the scratch rect
RECURSIVE scanZone(_, _, _)
RECURSIVE scanPoint(_, _, _, _)
RECURSIVE scanChecked(_, _, _)
scanPoint(f, b, ps, p) ==
    IF contains(b, p[2], p[1])
    THEN scanZone(f, b, ps \ {p})
    ELSE scanChecked(f, ps \ {p}, checkForBall(f, p[2], p[1], b))

scanChecked(f, rest, c) == IF c.ok THEN c ELSE scanZone(f, c.b, rest)

scanZone(f, b, ps) ==
    IF ps = {} THEN [ok |-> FALSE, b |-> b]
    ELSE scanPoint(f, b, ps, firstPoint(ps))

\* the re-acquisition at the four edge midpoints of the last box: the
\* second, third and fourth checkForBall, c being the outcome of the one
\* before
nearLeft(f, c) ==
    IF c.ok THEN c ELSE checkForBall(f, c.b.x0, centerY(c.b), c.b)
nearBottom(f, c) ==
    IF c.ok THEN c ELSE checkForBall(f, centerX(c.b), c.b.y1, c.b)
nearRight(f, c) ==
    IF c.ok THEN c ELSE checkForBall(f, c.b.x1, centerY(c.b), c.b)

\* the four checks chained by ||
nearChecks(f, bl) ==
    nearRight(f, nearBottom(f, nearLeft(f,
        checkForBall(f, centerX(bl), bl.y0, bl))))

\* the tail of findBall: the grid scan, with outcome scan
findBallScanned(bl, lb, lm, t, scan) ==
    IF scan.ok
    THEN [found |-> TRUE, ball |-> scan.b, lastBall |-> t, lastBallMove |-> t]
    ELSE [found |-> FALSE, ball |-> bl, lastBall |-> lb, lastBallMove |-> lm]

\* findBall after the four edge-midpoint checks, with outcome near
findBallNear(f, zone, bl, lb, lm, t, near) ==
    IF near.ok
    THEN [found |-> TRUE, ball |-> near.b, lastBall |-> t,
          lastBallMove |-> IF bl # near.b THEN t ELSE lm]
    ELSE findBallScanned(bl, lb, lm, t,
             scanZone(f, bl, scanHits(f, zone, bl)))

\* findBall(frame, zone) at time t, for the tracked rect bl and the
\* timestamps lb (lastBall) and lm (lastBallMove): the return value and
\* the three members afterwards
findBall(f, zone, bl, lb, lm, t) ==
    findBallNear(f, zone, bl, lb, lm, t, nearChecks(f, bl))

(* ------------------------------------------------------------------ *)
(* Field calibration                                                   *)
(* ------------------------------------------------------------------ *)

\* haveField() for the members ball and field
haveField(bl, fld) ==
    LET unit == max(4, Width(bl))
    IN /\ Width(fld) > unit * 10
       /\ Height(fld) > unit * 10
       /\ Width(fld) < Height(fld) + (unit \div 4)
       /\ Width(fld) > Height(fld) - (unit \div 4)

\* expandField that keeps waiting when no ball was ever seen
expandField_NeverFatal(fb, fld) ==
    IF ~fb.found
    THEN [ret |-> TRUE, field |-> fld, pngs |-> 0]
    ELSE IF fld.x1 = 0
         THEN [ret |-> TRUE, field |-> fb.ball, pngs |-> 0]
         ELSE [ret |-> TRUE, field |-> add(fld, fb.ball), pngs |-> 0]

\* expandField that takes every sighting for the first one
expandField_EverySightingFirst(fb, fld) ==
    IF ~fb.found
    THEN IF fld.x1 = 0
         THEN [ret |-> FALSE, field |-> fld, pngs |-> 1]
         ELSE [ret |-> TRUE, field |-> fld, pngs |-> 0]
    ELSE [ret |-> TRUE, field |-> fb.ball, pngs |-> 0]

\* expandField(frame), given the outcome fb of its findBall call: the
\* return value, the field afterwards and the number of savePng calls
expandField(fb, fld) ==
    IF ~fb.found
    THEN IF fld.x1 = 0
         THEN [ret |-> FALSE, field |-> fld, pngs |-> 1]
         ELSE [ret |-> TRUE, field |-> fld, pngs |-> 0]
    ELSE IF fld.x1 = 0
         THEN [ret |-> TRUE, field |-> fb.ball, pngs |-> 0]
         ELSE [ret |-> TRUE, field |-> add(fld, fb.ball), pngs |-> 0]

\* the for loop of addFieldSafetyMargin with i rounds left
RECURSIVE expandTimes(_, _)
expandTimes(r, i) == IF i <= 0 THEN r ELSE expandTimes(expand(r), i - 1)

addFieldSafetyMargin(bl, fld) == expandTimes(fld, Width(bl))

(* ------------------------------------------------------------------ *)
(* Fire policy                                                         *)
(* ------------------------------------------------------------------ *)

\* fire() letting a signal through one frame early
fire_OneFrameEarly(fc, lf, dz, ign) ==
    IF fc - lf >= dz - 1
    THEN [ret |-> TRUE, ignoredCount |-> 0, lastFire |-> fc,
          calls |-> << <<"fire">> >>]
    ELSE [ret |-> FALSE, ignoredCount |-> ign + 1, lastFire |-> lf,
          calls |-> << >>]

\* fire() returning true for an ignored attempt too
fire_AlwaysTrue(fc, lf, dz, ign) ==
    IF fc - lf >= dz
    THEN [ret |-> TRUE, ignoredCount |-> 0, lastFire |-> fc,
          calls |-> << <<"fire">> >>]
    ELSE [ret |-> TRUE, ignoredCount |-> ign + 1, lastFire |-> lf,
          calls |-> << >>]

\* fire(): the return value, the two members afterwards and the calls
\* made on the control sink
fire(fc, lf, dz, ign) ==
    IF fc - lf >= dz
    THEN [ret |-> TRUE, ignoredCount |-> 0, lastFire |-> fc,
          calls |-> << <<"fire">> >>]
    ELSE [ret |-> FALSE, ignoredCount |-> ign + 1, lastFire |-> lf,
          calls |-> << >>]

(* ------------------------------------------------------------------ *)
(* Game::step                                                          *)
(* ------------------------------------------------------------------ *)

\* the start-screen test without the comparison with lastField
idleStart_AnyField(lastField, fld, bl) == fld = bl

\* the start-screen test of the bootstrap branch
idleStart(lastField, fld, bl) == lastField = fld /\ fld = bl

\* the lost-ball timeout one second late
seenRecently_OneSecondLate(t, lb) == t - lb < 3

\* the two timeout tests of the active branch at clock reading t
movedRecently(t, lm) == t - lm < 2
seenRecently(t, lb) == t - lb < 2

\* What the bootstrap branch calls on the frame source, in order: next(),
\* the pixel reads of findBall, savePng when expandField gives up.
bootstrapFrameCalls(ef) ==
    <<"next", "findBall">>
        \o (IF ef.pngs > 0 THEN <<"savePng">> ELSE << >>)

\* the active branch reading pixels without a call of next()
activeFrameCalls_NoNext(fb) ==
    <<"findBall">>
        \o (IF fb.found THEN <<"isBallSurrounded">> ELSE << >>)

\* What the active branch calls on the frame source, in order: next(),
\* the pixel reads of findBall, those of isBallSurrounded when the ball
\* was found.
activeFrameCalls(fb) ==
    <<"next", "findBall">>
        \o (IF fb.found THEN <<"isBallSurrounded">> ELSE << >>)

\* The bootstrap branch once expandField has returned: fb is the outcome
\* of its findBall call, ef its own outcome, idle and have the tests of
\* the two special transitions.
bootstrapOutcome(g, fb, ef, idle, have) ==
    [ball |-> fb.ball,
     lastBall |-> fb.lastBall,
     lastBallMove |-> fb.lastBallMove,
     field |-> IF idle THEN expand(ef.field)
               ELSE IF have THEN addFieldSafetyMargin(fb.ball, ef.field)
               ELSE ef.field,
     ignoredCount |-> g.ignoredCount,
     lastFire |-> g.lastFire,
     hasFired |-> g.hasFired,
     keepPlaying |-> ef.ret,
     calls |-> IF idle
               THEN << <<"focus", centerX(fb.ball), centerY(fb.ball)>>,
                       <<"fire">> >>
               ELSE IF have
               THEN << <<"move", addFieldSafetyMargin(fb.ball, ef.field).x1,
                                 addFieldSafetyMargin(fb.ball, ef.field).y1>> >>
               ELSE << >>,
     pngs |-> ef.pngs,
     frameCalls |-> bootstrapFrameCalls(ef),
     branch |-> "bootstrap",
     found |-> fb.found,
     surrounded |-> FALSE,
     attempted |-> FALSE,
     margin |-> have]

bootstrapExpanded(g, fb, ef) ==
    bootstrapOutcome(g, fb, ef,
        ef.ret /\ idleStart(g.field, ef.field, fb.ball),
        ef.ret /\ ~idleStart(g.field, ef.field, fb.ball)
               /\ haveField(fb.ball, ef.field))

bootstrapFound(g, fb) == bootstrapExpanded(g, fb, expandField(fb, g.field))

\* The bootstrap branch for the members g on frame f, findBall reading
\* the clock as t: the members afterwards, keepPlaying and what was
\* called on the frame source and the control sink.
stepBootstrap(g, f, t) ==
    bootstrapFound(g, findBall(f, Rect(0, 0, width, height), g.ball,
                               g.lastBall, g.lastBallMove, t))

\* The active branch once findBall has returned fb: sur tells whether the
\* ball was found and surrounded, fr is the outcome fire() has if invoked.
activeOutcome(g, t2, fb, sur, fr) ==
    [ball |-> fb.ball,
     lastBall |-> fb.lastBall,
     lastBallMove |-> fb.lastBallMove,
     field |-> g.field,
     ignoredCount |-> IF sur /\ ~g.hasFired THEN fr.ignoredCount
                      ELSE g.ignoredCount,
     lastFire |-> IF sur /\ ~g.hasFired THEN fr.lastFire ELSE g.lastFire,
     hasFired |-> IF ~fb.found THEN g.hasFired
                  ELSE IF ~sur THEN FALSE
                  ELSE IF ~g.hasFired THEN fr.ret
                  ELSE g.hasFired,
     keepPlaying |-> IF fb.found THEN movedRecently(t2, fb.lastBallMove)
                     ELSE seenRecently(t2, g.lastBall),
     calls |-> IF sur /\ ~g.hasFired THEN fr.calls ELSE << >>,
     pngs |-> 0,
     frameCalls |-> activeFrameCalls(fb),
     branch |-> "active",
     found |-> fb.found,
     surrounded |-> sur,
     attempted |-> sur /\ ~g.hasFired,
     margin |-> FALSE]

activeFound(g, f, t2, fb) ==
    activeOutcome(g, t2, fb,
        fb.found /\ isBallSurrounded(f, expand(fb.ball)),
        fire(g.frameCount, g.lastFire, g.deadzoneFrames, g.ignoredCount))

\* The active branch: findBall reads the clock as t, the timeout test
\* reads it as t2.
stepActive(g, f, t, t2) ==
    activeFound(g, f, t2,
        findBall(f, g.field, g.ball, g.lastBall, g.lastBallMove, t))

\* step(frame)
step(g, f, t, t2) ==
    IF ~haveField(g.ball, g.field)
    THEN stepBootstrap(g, f, t)
    ELSE stepActive(g, f, t, t2)

(* ------------------------------------------------------------------ *)
(* The coordinates passed to getPixel                                  *)
(* ------------------------------------------------------------------ *)

\* A box of pixel coordinates: lx..hx by ly..hy, both ends included.
\* NoBox is the box of no coordinate at all.
Box(lx, ly, hx, hy) == [lx |-> lx, ly |-> ly, hx |-> hx, hy |-> hy]
Far == 4 * (width + height)
NoBox == Box(Far, Far, 0 - Far, 0 - Far)

Join(a, b) ==
    Box(min(a.lx, b.lx), min(a.ly, b.ly), max(a.hx, b.hx), max(a.hy, b.hy))

Pt(x, y) == Box(x, y, x, y)

SetMin(S) == CHOOSE m \in S : \A n \in S : m <= n
SetMax(S) == CHOOSE m \in S : \A n \in S : m >= n

\* the smallest box around the coordinates <<x, y>> of pts
BoxOf(pts) ==
    IF pts = {} THEN NoBox
    ELSE Box(SetMin({q[1] : q \in pts}), SetMin({q[2] : q \in pts}),
             SetMax({q[1] : q \in pts}), SetMax({q[2] : q \in pts}))

\* the last index a for loop over lo .. hi - 1 reaches when it returns at
\* the first index of hits
lastReached(hi, hits) == IF hits = {} THEN hi - 1 ELSE SetMin(hits)

\* the reads of the for loop of top/bottomContainsColor on the row y
rowReads(f, r, y, color) ==
    IF r.x0 >= r.x1 THEN NoBox
    ELSE Box(r.x0, y,
             lastReached(r.x1, {x \in r.x0 .. (r.x1 - 1) :
                                   getPixel(f, x, y) = color}), y)

\* the reads of the for loop of left/rightContainsColor on the column x
colReads(f, r, x, color) ==
    IF r.y0 >= r.y1 THEN NoBox
    ELSE Box(x, r.y0, x,
             lastReached(r.y1, {y \in r.y0 .. (r.y1 - 1) :
                                   getPixel(f, x, y) = color}))

\* The reads of one pass of the do/while body that began at r0: rl, rt
\* and rr are r1 after the left, the top and the right side.
passReadsSides(f, r0, rl, rt, rr, color) ==
    Join(Join(colReads(f, r0, max(0, r0.x0 - 1), color),
              rowReads(f, rl, max(0, rl.y0 - 1), color)),
         Join(colReads(f, rt, min(width - 1, rt.x1 + 1), color),
              rowReads(f, rr, min(height - 1, rr.y1 + 1), color)))

passReadsRight(f, r0, rl, rt, color) ==
    passReadsSides(f, r0, rl, rt, growRight(f, r0, rt, color), color)

passReadsTop(f, r0, rl, color) ==
    passReadsRight(f, r0, rl, growTop(f, r0, rl, color), color)

passReads(f, r0, color) ==
    passReadsTop(f, r0, growLeft(f, r0, r0, color), color)

\* the reads of the do/while loop, acc being those of the passes so far
RECURSIVE loopReads(_, _, _, _, _)
loopReads(f, r0, r1, color, acc) ==
    IF r0 = r1 THEN acc
    ELSE loopReads(f, r1, findColorBoundsPass(f, r1, color), color,
                   Join(acc, passReads(f, r1, color)))

findColorBoundsReads(f, rect, color) ==
    loopReads(f, rect, findColorBoundsPass(f, rect, color), color,
              passReads(f, rect, color))

\* A chain of pixel tests joined by &&: each probe <<x, y, color, equal>>
\* passes when the pixel's being of that colour is as equal says; the
\* chain reads up to its first failing probe.
probePasses(f, pr) == (getPixel(f, pr[1], pr[2]) = pr[3]) = pr[4]

chainReads(f, prs) ==
    BoxOf({<<prs[i][1], prs[i][2]>> :
              i \in 1 .. lastReached(Len(prs) + 1,
                            {j \in 1 .. Len(prs) : ~probePasses(f, prs[j])})})

\* the probes of the shape test of checkForBall, in its order
shapeProbes(r) ==
    << <<r.x0, r.y0, ballColor, FALSE>>,
       <<r.x1, r.y0, ballColor, FALSE>>,
       <<r.x0, r.y1, ballColor, FALSE>>,
       <<r.x1, r.y1, ballColor, FALSE>>,
       <<r.x0 + (Width(r) \div 2), r.y0 + 1, ballColor, TRUE>>,
       <<r.x0 + (Width(r) \div 2), r.y1 - 1, ballColor, TRUE>>,
       <<r.x0 + 1, r.y0 + (Height(r) \div 2), ballColor, TRUE>>,
       <<r.x1 - 1, r.y0 + (Height(r) \div 2), ballColor, TRUE>> >>

shapeReads(f, r) ==
    IF Width(r) > 4 /\ Height(r) > 4 /\ Width(r) = Height(r)
    THEN chainReads(f, shapeProbes(r))
    ELSE NoBox

\* the reads of checkForBall after its first, fcb being the outcome of
\* findColorBounds on the seed box
checkForBallGrownReads(f, seed, fcb) ==
    Join(findColorBoundsReads(f, seed, ballColor),
         IF fcb.changed THEN shapeReads(f, fcb.rect) ELSE NoBox)

\* the reads of checkForBall(frame, x, y, ball)
checkForBallReads(f, x, y) ==
    IF getPixel(f, x, y) # ballColor THEN Pt(x, y)
    ELSE Join(Pt(x, y),
              checkForBallGrownReads(f, Rect(x, y, x + 1, y + 1),
                  findColorBounds(f, Rect(x, y, x + 1, y + 1), ballColor)))

\* the probes of isBallSurrounded on the rect g it has expanded
surroundedProbes(g) ==
    << <<centerX(g), g.y0, fieldColor, FALSE>>,
       <<centerX(g), g.y1, fieldColor, FALSE>>,
       <<g.x0, centerY(g), fieldColor, FALSE>>,
       <<g.x1, centerY(g), fieldColor, FALSE>> >>

\* the reads of isBallSurrounded(frame, ball)
isBallSurroundedReads(f, b) ==
    chainReads(f, surroundedProbes(expand(expand(expand(b)))))

\* The reads of the four edge-midpoint checks of findBall: c is the
\* outcome of the check before, acc the reads so far.
nearReadsRight(f, c, acc) ==
    IF c.ok THEN acc
    ELSE Join(acc, checkForBallReads(f, c.b.x1, centerY(c.b)))

nearReadsBottom(f, c, acc) ==
    IF c.ok THEN acc
    ELSE nearReadsRight(f, checkForBall(f, centerX(c.b), c.b.y1, c.b),
             Join(acc, checkForBallReads(f, centerX(c.b), c.b.y1)))

nearReadsLeft(f, c, acc) ==
    IF c.ok THEN acc
    ELSE nearReadsBottom(f, checkForBall(f, c.b.x0, centerY(c.b), c.b),
             Join(acc, checkForBallReads(f, c.b.x0, centerY(c.b))))

nearReads(f, bl) ==
    nearReadsLeft(f, checkForBall(f, centerX(bl), bl.y0, bl),
                  checkForBallReads(f, centerX(bl), bl.y0))

\* the points <<y, x>> the two for loops of the grid scan go through
gridPoints(zone, bl) ==
    {q \in (zone.y0 .. (zone.y1 - 1)) \X (zone.x0 .. (zone.x1 - 1)) :
        /\ (q[1] - zone.y0) % max(1, Height(bl) \div 2) = 0
        /\ (q[2] - zone.x0) % max(1, Width(bl) \div 2) = 0}

\* the point p comes before the point q in the scan
scannedBefore(p, q) == p[1] < q[1] \/ (p[1] = q[1] /\ p[2] < q[2])

\* the reads of the scan at the grid points after from and before to,
\* none of which is ball coloured: getPixel for each point outside the
\* scratch rect b
gapReads(grid, b, from, to) ==
    BoxOf({<<q[2], q[1]>> :
              q \in {g \in grid : /\ scannedBefore(from, g)
                                  /\ scannedBefore(g, to)
                                  /\ ~contains(b, g[2], g[1])}})

\* The reads of the grid scan: ps are the ball-coloured grid points still
\* ahead, from the one dealt with last, b the scratch rect, acc the reads
\* so far.
RECURSIVE scanReadsZone(_, _, _, _, _, _)
RECURSIVE scanReadsPoint(_, _, _, _, _, _)
RECURSIVE scanReadsChecked(_, _, _, _, _, _)
scanReadsChecked(f, grid, rest, p, c, acc) ==
    IF c.ok THEN acc ELSE scanReadsZone(f, grid, c.b, rest, p, acc)

scanReadsPoint(f, grid, b, ps, p, acc) ==
    IF contains(b, p[2], p[1])
    THEN scanReadsZone(f, grid, b, ps \ {p}, p, acc)
    ELSE scanReadsChecked(f, grid, ps \ {p}, p,
             checkForBall(f, p[2], p[1], b),
             Join(acc, checkForBallReads(f, p[2], p[1])))

scanReadsZone(f, grid, b, ps, from, acc) ==
    IF ps = {}
    THEN Join(acc, gapReads(grid, b, from, <<Far, Far>>))
    ELSE scanReadsPoint(f, grid, b, ps, firstPoint(ps),
             Join(acc, gapReads(grid, b, from, firstPoint(ps))))

scanReads(f, zone, bl) ==
    scanReadsZone(f, gridPoints(zone, bl), bl, scanHits(f, zone, bl),
                  <<0 - Far, 0 - Far>>, NoBox)

\* the reads of findBall(frame, zone), near being the outcome of its four
\* edge-midpoint checks
findBallNearReads(f, zone, bl, near) ==
    IF near.ok THEN nearReads(f, bl)
    ELSE Join(nearReads(f, bl), scanReads(f, zone, bl))

findBallReads(f, zone, bl) ==
    findBallNearReads(f, zone, bl, nearChecks(f, bl))

\* the reads of the active branch, fb being the outcome of findBall
activeReads(f, fb, acc) ==
    IF fb.found THEN Join(acc, isBallSurroundedReads(f, expand(fb.ball)))
    ELSE acc

\* the box of the coordinates step(frame) passes to getPixel
stepReads(g, f) ==
    IF ~haveField(g.ball, g.field)
    THEN findBallReads(f, Rect(0, 0, width, height), g.ball)
    ELSE activeReads(f,
             findBall(f, g.field, g.ball, g.lastBall, g.lastBallMove, 0),
             findBallReads(f, g.field, g.ball))

(* ------------------------------------------------------------------ *)
(* State                                                               *)
(* ------------------------------------------------------------------ *)

VARIABLES
    \* members of Game
    ball, field, frameCount, lastFire, lastBall, lastBallMove,
    deadzoneFrames, ignoredCount, hasFired,
    \* time(NULL), and whether the loop of main is still running
    now, running,
    \* the last step call: its frame, its branch, its return value, the
    \* savePng calls and the control-sink calls it made
    frame, branch, keepPlaying, pngs, calls,
    \* the last step call: findBall's and isBallSurrounded's results,
    \* whether fire() was invoked, whether the safety margin was added
    found, surrounded, attempted, margin,
    \* every controls.fire() so far: <<frame index, "start" or "policy">>
    signals,
    \* every fire() so far: <<frame index, return value, ignoredCount before>>
    attempts,
    \* whether a step found the ball not surrounded since the last fire()
    \* that returned true
    rearmed,
    \* number of safety-margin expansions so far
    marginCount,
    \* a single call of one function of the core: its arguments and what
    \* it returned ("none" outside such a call)
    args, rets,
    \* the last step call: what it called on the frame source, in order,
    \* and the box of the coordinates it passed to getPixel (where that is
    \* recorded)
    frameLog, pixelBox

gameVars == <<ball, field, frameCount, lastFire, lastBall, lastBallMove,
              deadzoneFrames, ignoredCount, hasFired>>
envVars == <<now, running>>
stepVars == <<frame, branch, keepPlaying, pngs, calls, found, surrounded,
              attempted, margin>>
logVars == <<signals, attempts, rearmed, marginCount>>
unitVars == <<args, rets>>
probeVars == <<frameLog, pixelBox>>
vars == <<gameVars, envVars, stepVars, logVars, unitVars, probeVars>>

\* the members as a record
Game ==
    [ball |-> ball, field |-> field, frameCount |-> frameCount,
     lastFire |-> lastFire, lastBall |-> lastBall,
     lastBallMove |-> lastBallMove, deadzoneFrames |-> deadzoneFrames,
     ignoredCount |-> ignoredCount, hasFired |-> hasFired]

\* no single call is under way
NoCall == [op |-> "none"]

\* Game::Game(controls, width, height, deadzoneFrames): the members, and
\* nothing has been called yet
Constructed ==
    /\ ball = Rect(0, 0, 0, 0)
    /\ field = Rect(0, 0, 0, 0)
    /\ frameCount = 0
    /\ lastFire = 0
    /\ now = 0
    /\ lastBall = 0
    /\ lastBallMove = 0
    /\ deadzoneFrames \in DeadzoneValues
    /\ ignoredCount = 0
    /\ hasFired = FALSE
    /\ running = TRUE
    /\ frame = NoBall
    /\ branch = "none"
    /\ keepPlaying = TRUE
    /\ pngs = 0
    /\ calls = << >>
    /\ found = FALSE
    /\ surrounded = FALSE
    /\ attempted = FALSE
    /\ margin = FALSE
    /\ signals = << >>
    /\ attempts = << >>
    /\ rearmed = FALSE
    /\ marginCount = 0
    /\ frameLog = << >>
    /\ pixelBox = NoBox

\* the state before the loop of main
Init ==
    /\ Constructed
    /\ args = NoCall
    /\ rets = NoCall

\* the fire signals among the control calls cs of frame fc
firesOf(cs, fc, src) ==
    IF \E i \in 1 .. Len(cs) : cs[i] = <<"fire">>
    THEN << <<fc, src>> >> ELSE << >>

\* One iteration of the loop of main: game.step(frame) on frame f; the
\* clock moves on by dt between findBall's reading and the timeout test
\* (only the active branch reads the clock a second time).  box is what
\* is recorded of the coordinates passed to getPixel.
StepOn(f, dt, box) ==
    /\ running
    /\ now + dt <= MaxTime
    /\ dt > 0 => haveField(ball, field)
    /\ \E r \in {step(Game, f, now, now + dt)} :
          /\ ball' = r.ball
          /\ field' = r.field
          /\ lastBall' = r.lastBall
          /\ lastBallMove' = r.lastBallMove
          /\ ignoredCount' = r.ignoredCount
          /\ lastFire' = r.lastFire
          /\ hasFired' = r.hasFired
          /\ frameCount' = frameCount + 1
          /\ keepPlaying' = r.keepPlaying
          /\ running' = r.keepPlaying
          /\ calls' = r.calls
          /\ pngs' = r.pngs
          /\ branch' = r.branch
          /\ found' = r.found
          /\ surrounded' = r.surrounded
          /\ attempted' = r.attempted
          /\ margin' = r.margin
          /\ signals' = signals \o firesOf(r.calls, frameCount,
                            IF r.branch = "active" THEN "policy" ELSE "start")
          /\ attempts' = IF r.attempted
                         THEN Append(attempts,
                                  <<frameCount, r.hasFired, ignoredCount>>)
                         ELSE attempts
          /\ rearmed' = IF r.attempted /\ r.hasFired THEN FALSE
                        ELSE IF r.branch = "active" /\ r.found /\ ~r.surrounded
                        THEN TRUE
                        ELSE rearmed
          /\ marginCount' = marginCount + (IF r.margin THEN 1 ELSE 0)
          /\ frameLog' = r.frameCalls
    /\ frame' = f
    /\ now' = now + dt
    /\ pixelBox' = box
    /\ UNCHANGED <<deadzoneFrames, unitVars>>

\* a step whose pixel coordinates are not recorded
Step(f, dt) == StepOn(f, dt, NoBox)

\* a second passes between two step calls (the loop sleeps)
Tick ==
    /\ running
    /\ now < MaxTime
    /\ now' = now + 1
    /\ UNCHANGED <<gameVars, running, stepVars, logVars, unitVars, probeVars>>

Next ==
    \/ frameCount < MaxFrames /\ \E f \in Frames, dt \in {0, 1} : Step(f, dt)
    \/ Tick

Spec == Init /\ [][Next]_vars

(* ------------------------------------------------------------------ *)
(* Longer games on fewer frames, the clock standing still              *)
(* ------------------------------------------------------------------ *)

\* number of step calls explored in a longer game
PlayFrames == 8

PlaySet == {NoBall, BallA, BallB, BallBHalo4}

PlayNext == frameCount < PlayFrames /\ \E f \in PlaySet : Step(f, 0)

PlaySpec == Init /\ [][PlayNext]_vars

(* ------------------------------------------------------------------ *)
(* Games whose pixel reads are recorded                                *)
(* ------------------------------------------------------------------ *)

\* number of step calls explored with the pixel reads recorded
ProbeFrames == 4

\* balls in the first and in the last columns and rows of the raster,
\* and the ball near the border with a line of another colour around it
BallOrigin == Frame(0, 0, 6, fieldColor, 0, FALSE)
BallLast == Frame(width - 6, height - 6, 6, fieldColor, 0, FALSE)
BallEdgeHalo4 == Frame(56, 56, 6, fieldColor, 4, FALSE)

ProbeSet == {NoBall, BallA, BallEdge, BallBHalo4, BallOrigin, BallLast,
             BallEdgeHalo4}

ProbeNext ==
    /\ frameCount < ProbeFrames
    /\ \E f \in ProbeSet : StepOn(f, 0, stepReads(Game, f))

ProbeSpec == Init /\ [][ProbeNext]_vars

(* ------------------------------------------------------------------ *)
(* The fire policy on its own: fire() tried, or not, once per frame    *)
(* ------------------------------------------------------------------ *)

\* number of frames of the fire policy scenario
FireFrames == 7

\* fire() is invoked on this frame, then the frame counter moves on
FireAttempt ==
    /\ frameCount < FireFrames
    /\ \E r \in {fire(frameCount, lastFire, deadzoneFrames, ignoredCount)} :
          /\ ignoredCount' = r.ignoredCount
          /\ lastFire' = r.lastFire
          /\ calls' = r.calls
          /\ signals' = signals \o firesOf(r.calls, frameCount, "policy")
          /\ attempts' = Append(attempts, <<frameCount, r.ret, ignoredCount>>)
    /\ attempted' = TRUE
    /\ frameCount' = frameCount + 1
    /\ UNCHANGED <<ball, field, lastBall, lastBallMove, deadzoneFrames,
                   hasFired, envVars, frame, branch, keepPlaying, pngs, found,
                   surrounded, margin, rearmed, marginCount, unitVars,
                   probeVars>>

\* a frame on which fire() is not invoked
FireSkip ==
    /\ frameCount < FireFrames
    /\ attempted' = FALSE
    /\ calls' = << >>
    /\ frameCount' = frameCount + 1
    /\ UNCHANGED <<ball, field, lastFire, lastBall, lastBallMove,
                   deadzoneFrames, ignoredCount, hasFired, envVars, frame,
                   branch, keepPlaying, pngs, found, surrounded, margin,
                   logVars, unitVars, probeVars>>

FireNext == FireAttempt \/ FireSkip

FireSpec == Init /\ [][FireNext]_vars

(* ------------------------------------------------------------------ *)
(* The colour-region finder on its own                                 *)
(* ------------------------------------------------------------------ *)

\* largest side of the solid blocks
BlockMax == 4

\* where the solid blocks lie
BlockX == 10
BlockY == 12

\* the pixels <<y, x>> of the solid w x h block at (bx, by)
BlockPixels(bx, by, w, h) == (by .. (by + h - 1)) \X (bx .. (bx + w - 1))

\* a 1x1 seed box on the pixel p of the solid w x h block of ball colour
\* lying in a raster of field colour
BlockInput(w, h, p) ==
    [op |-> "findColorBounds", shape |-> "block", w |-> w, h |-> h,
     f |-> Raster(BlockPixels(BlockX, BlockY, w, h), ballColor, fieldColor),
     rect |-> Rect(p[2], p[1], p[2] + 1, p[1] + 1), color |-> ballColor]

BlockInputs ==
    UNION {UNION {{BlockInput(w, h, p) :
                      p \in BlockPixels(BlockX, BlockY, w, h)} :
                  h \in 1 .. BlockMax} :
           w \in 1 .. BlockMax}

\* size of the window of arbitrary pixels in the last columns and rows of
\* the raster
WindowW == 3
WindowH == 2

WindowPixels ==
    ((height - WindowH) .. (height - 1)) \X ((width - WindowW) .. (width - 1))

\* the rects with 0 <= x0 < x1 <= width and 0 <= y0 < y1 <= height that
\* begin in the window
WindowRects ==
    {r \in [x0 : (width - WindowW) .. (width - 1),
            y0 : (height - WindowH) .. (height - 1),
            x1 : (width - WindowW + 1) .. width,
            y1 : (height - WindowH + 1) .. height] :
        r.x0 < r.x1 /\ r.y0 < r.y1}

\* every raster that has ball colour on some pixels of the window and
\* another colour elsewhere, every such rect, both target colours
WindowInputs ==
    [op : {"findColorBounds"}, shape : {"window"}, w : {0}, h : {0},
     f : {Raster(pix, ballColor, otherColor) : pix \in SUBSET WindowPixels},
     rect : WindowRects, color : {ballColor, fieldColor}]

FinderInputs == BlockInputs \cup WindowInputs

\* the Game of main (deadzoneFrames 1) right after construction, and the
\* arguments of the call
FinderInit ==
    /\ Constructed
    /\ deadzoneFrames = 1
    /\ args \in FinderInputs
    /\ rets = NoCall

\* findColorBounds(frame, rect, color) on the arguments drawn
CallFindColorBounds ==
    /\ args.op = "findColorBounds"
    /\ rets.op = "none"
    /\ \E r \in {findColorBounds(args.f, args.rect, args.color)} :
          rets' = [op |-> "findColorBounds", changed |-> r.changed,
                   rect |-> r.rect]
    /\ UNCHANGED <<gameVars, envVars, stepVars, logVars, probeVars, args>>

\* findColorBounds a second time, on the rect the first call left
CallFindColorBoundsAgain ==
    /\ args.op = "findColorBounds"
    /\ rets.op = "findColorBounds"
    /\ \E r \in {findColorBounds(args.f, rets.rect, args.color)} :
          rets' = [op |-> "findColorBoundsAgain", changed |-> r.changed,
                   rect |-> r.rect, first |-> rets.rect]
    /\ UNCHANGED <<gameVars, envVars, stepVars, logVars, probeVars, args>>

FinderNext == CallFindColorBounds \/ CallFindColorBoundsAgain

FinderSpec == FinderInit /\ [][FinderNext]_vars

(* ------------------------------------------------------------------ *)
(* The do/while loop of the colour-region finder, pass by pass         *)
(* ------------------------------------------------------------------ *)

\* side of the square in the last corner of the raster
CornerSide == 2

CornerPixels ==
    ((height - CornerSide) .. (height - 1))
        \X ((width - CornerSide) .. (width - 1))

\* the rects with x0 < x1 <= width and y0 < y1 <= height that begin in
\* the corner square
CornerRects ==
    {r \in [x0 : (width - CornerSide) .. (width - 1),
            y0 : (height - CornerSide) .. (height - 1),
            x1 : (width - CornerSide + 1) .. width,
            y1 : (height - CornerSide + 1) .. height] :
        r.x0 < r.x1 /\ r.y0 < r.y1}

\* the rects of the corner square that end one past the last column and
\* the last row of the raster
EdgeRects == {r \in CornerRects : r.x1 = width /\ r.y1 = height}

\* most pixels of the corner square that differ from the background
CornerDots == 2

\* rasters with ball colour on at most CornerDots pixels of the corner
\* square, searched for ball colour from every rect of the square
CornerInputs ==
    [op : {"findColorBounds"}, shape : {"corner"}, w : {0}, h : {0},
     f : {Raster(pix, ballColor, otherColor) :
             pix \in {q \in SUBSET CornerPixels : Cardinality(q) <= CornerDots}},
     rect : CornerRects, color : {ballColor}]

\* rasters of one colour but for at most one pixel of the corner square,
\* searched for their background colour from a rect at the raster's edge:
\* the rect grows over the raster, one column and one row a pass
SweepInputs ==
    [op : {"findColorBounds"}, shape : {"sweep"}, w : {0}, h : {0},
     f : {Raster(pix, ballColor, otherColor) :
             pix \in {{}} \cup {{p} : p \in CornerPixels}},
     rect : EdgeRects, color : {otherColor}]

LoopInputs == BlockInputs \cup CornerInputs \cup SweepInputs

LoopInit ==
    /\ Constructed
    /\ deadzoneFrames = 1
    /\ args \in LoopInputs
    /\ rets = NoCall

\* r1 = rect, then the first pass of the do/while body
LoopEnter ==
    /\ rets.op = "none"
    /\ rets' = [op |-> "pass", r0 |-> args.rect,
                r1 |-> findColorBoundsPass(args.f, args.rect, args.color)]
    /\ UNCHANGED <<gameVars, envVars, stepVars, logVars, probeVars, args>>

\* while (r0 != r1) holds: r0 = r1 and one more pass of the body
LoopPass ==
    /\ rets.op = "pass"
    /\ rets.r0 # rets.r1
    /\ rets' = [op |-> "pass", r0 |-> rets.r1,
                r1 |-> findColorBoundsPass(args.f, rets.r1, args.color)]
    /\ UNCHANGED <<gameVars, envVars, stepVars, logVars, probeVars, args>>

\* while (r0 != r1) fails: the loop is left, rect and the return value
\* are set
LoopLeave ==
    /\ rets.op = "pass"
    /\ rets.r0 = rets.r1
    /\ \E r \in {findColorBoundsResult(args.rect, rets.r0)} :
          rets' = [op |-> "left", changed |-> r.changed, rect |-> r.rect]
    /\ UNCHANGED <<gameVars, envVars, stepVars, logVars, probeVars, args>>

LoopNext == LoopEnter \/ LoopPass \/ LoopLeave

LoopSpec == LoopInit /\ [][LoopNext]_vars

\* the call keeps running: a pass or the exit that can be taken is taken
LoopFairSpec == LoopSpec /\ WF_vars(LoopNext)

(* ------------------------------------------------------------------ *)
(* The ball detector on its own                                        *)
(* ------------------------------------------------------------------ *)

\* where the shapes lie
ShapeX == 20
ShapeY == 24

\* the pixels <<y, x>> of the n x n square at (bx, by) without the pixels
\* less than cut steps from a corner: cut 0 is the solid square, cut 1 the
\* square without its four corner pixels, cut (n - 1) \div 2 the diamond
ShapePixels(bx, by, n, cut) ==
    {p \in BlockPixels(bx, by, n, n) :
        min(p[2] - bx, (bx + n - 1) - p[2])
            + min(p[1] - by, (by + n - 1) - p[1]) >= cut}

\* checkForBall on the pixel p of a raster of field colour whose ball
\* coloured pixels are pix; the reference argument starts as Rect()
ShapeInput(shape, n, cut, pix, p) ==
    [op |-> "checkForBall", shape |-> shape, n |-> n, cut |-> cut,
     f |-> Raster(pix, ballColor, fieldColor), x |-> p[2], y |-> p[1],
     b |-> Rect(0, 0, 0, 0)]

\* the 5x5 and 7x7 shapes with corners cut, seeded on each of their pixels
TokenInputs ==
    UNION {UNION {{ShapeInput("token", n, cut,
                       ShapePixels(ShapeX, ShapeY, n, cut), p) :
                      p \in ShapePixels(ShapeX, ShapeY, n, cut)} :
                  cut \in 1 .. ((n - 1) \div 2)} :
           n \in {5, 7}}

\* the solid 5x5 and 7x7 squares, seeded on each of their pixels
SolidInputs ==
    UNION {{ShapeInput("solid", n, 0, ShapePixels(ShapeX, ShapeY, n, 0), p) :
               p \in ShapePixels(ShapeX, ShapeY, n, 0)} :
           n \in {5, 7}}

\* every ball-coloured region within a 3x3 square, seeded on each of its
\* pixels
SmallInputs ==
    UNION {{ShapeInput("small", 3, 0, pix, p) : p \in pix} :
           pix \in SUBSET BlockPixels(ShapeX, ShapeY, 3, 3)}

\* the 7x7 disc at (bx, by), the rect the detector makes of it, and the
\* disc without the four pixels findBall looks at first when it tracks
\* that rect
Disc(bx, by) == ShapePixels(bx, by, 7, 2)
DiscRect(bx, by) == Rect(bx, by, bx + 6, by + 6)
Notched(bx, by) ==
    Disc(bx, by) \ {<<by, bx + 3>>, <<by + 3, bx>>,
                    <<by + 6, bx + 3>>, <<by + 3, bx + 6>>}

\* a single ball-coloured pixel in the corner of the raster
Speck == {<<0, 0>>}

\* the ball-coloured pixels of the frames findBall is called on
TrackFrames ==
    {{}, Speck,
     Disc(ShapeX, ShapeY), Disc(ShapeX, ShapeY) \cup Speck,
     Disc(ShapeX + 4, ShapeY + 1),
     Notched(ShapeX, ShapeY), Notched(ShapeX, ShapeY) \cup Speck}

\* findBall(frame, zone) at time t for every such frame, the tracked rect
\* being the initial one, the disc's or that of a disc elsewhere, and the
\* timestamps lying before t
TrackInputs ==
    {a \in [op : {"findBall"},
            f : {Raster(pix, ballColor, fieldColor) : pix \in TrackFrames},
            zone : {Rect(0, 0, width, height),
                    Rect(ShapeX - 2, ShapeY - 3, ShapeX + 30, ShapeY + 30)},
            ball : {Rect(0, 0, 0, 0), DiscRect(ShapeX, ShapeY),
                    DiscRect(ShapeX + 4, ShapeY + 1)},
            lastBall : 0 .. (MaxTime - 1),
            lastBallMove : 0 .. (MaxTime - 1),
            t : 1 .. MaxTime] :
        a.lastBall < a.t /\ a.lastBallMove <= a.lastBall}

DetectorInputs ==
    TokenInputs \cup SolidInputs \cup SmallInputs \cup TrackInputs

DetectorInit ==
    /\ Constructed
    /\ deadzoneFrames = 1
    /\ args \in DetectorInputs
    /\ rets = NoCall

\* checkForBall(frame, x, y, ball) on the arguments drawn
CallCheckForBall ==
    /\ args.op = "checkForBall"
    /\ rets.op = "none"
    /\ \E c \in {checkForBall(args.f, args.x, args.y, args.b)} :
          rets' = [op |-> "checkForBall", ok |-> c.ok, b |-> c.b]
    /\ UNCHANGED <<gameVars, envVars, stepVars, logVars, probeVars, args>>

\* findBall(frame, zone) on the arguments drawn
CallFindBall ==
    /\ args.op = "findBall"
    /\ rets.op = "none"
    /\ \E r \in {findBall(args.f, args.zone, args.ball, args.lastBall,
                           args.lastBallMove, args.t)} :
          rets' = [op |-> "findBall", found |-> r.found, ball |-> r.ball,
                   lastBall |-> r.lastBall, lastBallMove |-> r.lastBallMove]
    /\ UNCHANGED <<gameVars, envVars, stepVars, logVars, probeVars, args>>

DetectorNext == CallCheckForBall \/ CallFindBall

DetectorSpec == DetectorInit /\ [][DetectorNext]_vars

(* ------------------------------------------------------------------ *)
(* The rect operations on their own                                    *)
(* ------------------------------------------------------------------ *)

\* how far beyond the raster's borders the coordinates of the rects go
Beyond == 1

CoordsX == ((0 - Beyond) .. 3) \cup ((width - 2) .. (width + Beyond))
CoordsY == ((0 - Beyond) .. 3) \cup ((height - 2) .. (height + Beyond))

\* rects of every kind: outside the raster, across its borders, inside it,
\* empty, and with x0 > x1 or y0 > y1
ClampInputs ==
    [op : {"rect"}, rect : [x0 : CoordsX, y0 : CoordsY, x1 : CoordsX,
                            y1 : CoordsY]]

\* largest coordinate of the rects that are united
AddMax == 1

AddInputs ==
    [op : {"add"},
     a : [x0 : 0 .. AddMax, y0 : 0 .. AddMax, x1 : 0 .. AddMax, y1 : 0 .. AddMax],
     b : [x0 : 0 .. AddMax, y0 : 0 .. AddMax, x1 : 0 .. AddMax, y1 : 0 .. AddMax],
     c : [x0 : 0 .. AddMax, y0 : 0 .. AddMax, x1 : 0 .. AddMax, y1 : 0 .. AddMax]]

GeometryInit ==
    /\ Constructed
    /\ deadzoneFrames = 1
    /\ args \in ClampInputs \cup AddInputs
    /\ rets = NoCall

\* the rect the next operation works on, and the operations done so far
rectNow == IF rets.op = "none" THEN args.rect ELSE rets.rect
trailNow == IF rets.op = "none" THEN << >> ELSE rets.trail

\* one of limit, expand and shrink has changed the rect into r
RectCall(name, r) ==
    /\ args.op = "rect"
    /\ Len(trailNow) < 2
    /\ rets' = [op |-> "rect", rect |-> r, before |-> rectNow,
                trail |-> Append(trailNow, name)]
    /\ UNCHANGED <<gameVars, envVars, stepVars, logVars, probeVars, args>>

CallLimit == RectCall("limit", limit(rectNow))
CallExpand == RectCall("expand", expand(rectNow))
CallShrink == RectCall("shrink", shrink(rectNow))

\* a.add(b), b.add(a), a.add(b) then .add(c), a.add(b.add(c)), a.add(a)
CallAdd ==
    /\ args.op = "add"
    /\ rets.op = "none"
    /\ rets' = [op |-> "add",
                ab |-> add(args.a, args.b),
                ba |-> add(args.b, args.a),
                abThenC |-> add(add(args.a, args.b), args.c),
                aWithBc |-> add(args.a, add(args.b, args.c)),
                aa |-> add(args.a, args.a)]
    /\ UNCHANGED <<gameVars, envVars, stepVars, logVars, probeVars, args>>

GeometryNext == CallLimit \/ CallExpand \/ CallShrink \/ CallAdd

GeometrySpec == GeometryInit /\ [][GeometryNext]_vars

(* ------------------------------------------------------------------ *)
(* Properties                                                          *)
(* ------------------------------------------------------------------ *)

\* a step call was made
StepTaken == frameCount' = frameCount + 1

\* fire() was invoked on every frame so far
AttemptedEveryFrame ==
    /\ Len(attempts) = frameCount
    /\ \A i \in 1 .. Len(attempts) : attempts[i][1] = i - 1

\* C1: with deadzoneFrames = 3 and fire() invoked once on each of the
\* frames 0..5 of a fresh Game, fire() dispatches exactly on frames 0 and
\* 3, and ignoredCount is 2 right before the dispatch on frame 3 and 0
\* right after it.
C1_DispatchOnFrames0And3 ==
    (deadzoneFrames = 3 /\ AttemptedEveryFrame /\ frameCount <= 6) =>
        /\ \A i \in 1 .. Len(attempts) :
              /\ attempts[i][2] = (attempts[i][1] \in {0, 3})
              /\ attempts[i][1] = 3 => attempts[i][3] = 2
        /\ frameCount = 4 => ignoredCount = 0

\* the fire() calls that returned true, and the signals they sent
Succeeded(a) == a[2]
IsPolicy(sg) == sg[2] = "policy"

\* every two consecutive entries of a log of <<frame index, ...>> lie at
\* least deadzoneFrames frames apart
GapKept(log) ==
    \A i \in 1 .. (Len(log) - 1) : log[i + 1][1] - log[i][1] >= deadzoneFrames

\* C2 as stated: every two consecutive controls.fire() calls, the
\* start-screen signal of the bootstrap branch included, happen at frame
\* indices at least deadzoneFrames apart.
C2_AllSignalsGap == GapKept(signals)

\* C2 as amended: every two consecutive controls.fire() calls made by the
\* fire policy, Game::fire, happen at frame indices at least
\* deadzoneFrames apart.
C2_PolicyGap == GapKept(SelectSeq(signals, IsPolicy))

\* the policy has dispatched twice under a deadzone of three frames, after
\* a start-screen signal
C2_Witness ==
    /\ deadzoneFrames = 3
    /\ Len(SelectSeq(signals, IsPolicy)) >= 2
    /\ Len(signals) > Len(SelectSeq(signals, IsPolicy))

\* C3 as stated: an active step that does not find the ball returns true
\* exactly while the clock reads at most 2 seconds after lastBall.
C3_TimeoutAfterTwo ==
    [][(StepTaken /\ branch' = "active" /\ ~found')
          => (keepPlaying' <=> (now' - lastBall <= 2))]_vars

\* C3 as amended: an active step that does not find the ball returns true
\* exactly while the clock reads less than 2 seconds after lastBall; it
\* returns false on the first call made 2 seconds or more after the ball
\* was last seen, never before.
C3_TimeoutAtTwo ==
    [][(StepTaken /\ branch' = "active" /\ ~found')
          => (keepPlaying' <=> (now' - lastBall < 2))]_vars

\* an active step lost the ball 2 seconds after it was last seen and
\* returned false
C3_Witness ==
    branch = "active" /\ ~found /\ ~keepPlaying /\ now - lastBall = 2

\* C4: once haveField() has held in a bootstrap step (the safety margin
\* was added), every later step takes the active branch.
C4_OneWay ==
    [][(StepTaken /\ marginCount >= 1) => branch' = "active"]_vars

\* the rect r grown by k pixels on each side, clamped to the screen
Grow(r, k) ==
    Rect(max(0, r.x0 - k), max(0, r.y0 - k),
         min(width, r.x1 + k), min(height, r.y1 + k))

\* the control calls of the start-screen signal for the ball rect r
StartSignal(r) ==
    << <<"focus", r.x0 + ((r.x1 - r.x0) \div 2), r.y0 + ((r.y1 - r.y0) \div 2)>>,
       <<"fire">> >>

C6_MarginOnce ==
    [][StepTaken =>
          (margin' => /\ marginCount = 0
                      /\ calls' = << <<"move", field'.x1, field'.y1>> >>)]_vars

\* C7: a bootstrap step that finds no ball while a field was captured
\* returns true, leaves field and ball alone and makes no control call.
C7_PureWait ==
    [][(StepTaken /\ branch' = "bootstrap" /\ ~found' /\ field.x1 # 0)
          => /\ keepPlaying'
             /\ field' = field /\ ball' = ball
             /\ calls' = << >>]_vars

\* C8: a bootstrap step returns false iff it finds no ball and no field
\* was ever captured; it then calls savePng once and makes no control
\* call; every other bootstrap step returns true without savePng.
C8_FatalBootstrap ==
    [][(StepTaken /\ branch' = "bootstrap") =>
          /\ ~keepPlaying' <=> (~found' /\ field.x1 = 0)
          /\ ~keepPlaying' => (pngs' = 1 /\ calls' = << >>)
          /\ keepPlaying' => pngs' = 0]_vars

\* the first frame showed no ball: the step stopped the session
C8_Witness ==
    /\ branch = "bootstrap" /\ ~keepPlaying /\ ~running
    /\ ~found /\ pngs = 1 /\ calls = << >>

\* C9: a fire() that dispatches is preceded, since the dispatch before
\* it, by a step that found the ball not surrounded; fire() is not
\* invoked while hasFired is set; an ignored attempt leaves hasFired
\* false, and a surrounded frame with hasFired false invokes fire().
C9_OnePerEpisode ==
    [][(StepTaken /\ branch' = "active") =>
          /\ (attempted' /\ calls' = << <<"fire">> >>
                /\ Len(SelectSeq(attempts, Succeeded)) > 0) => rearmed
          /\ hasFired => ~attempted'
          /\ (attempted' /\ calls' = << >>) => ~hasFired'
          /\ (~hasFired /\ found' /\ surrounded') => attempted']_vars

\* two dispatches and an ignored attempt
C9_Witness ==
    /\ Len(SelectSeq(attempts, Succeeded)) >= 2
    /\ Len(attempts) > Len(SelectSeq(attempts, Succeeded))

\* none of the four edge midpoints of the box g shows the field colour
ProbesOffField(f, g) ==
    /\ getPixel(f, g.x0 + ((g.x1 - g.x0) \div 2), g.y0) # fieldColor
    /\ getPixel(f, g.x0 + ((g.x1 - g.x0) \div 2), g.y1) # fieldColor
    /\ getPixel(f, g.x0, g.y0 + ((g.y1 - g.y0) \div 2)) # fieldColor
    /\ getPixel(f, g.x1, g.y0 + ((g.y1 - g.y0) \div 2)) # fieldColor

\* C10 as stated: in an active step that found the ball, the ball counts
\* as surrounded iff the four edge midpoints of the ball rect grown by 3
\* pixels on each side all differ from the field colour.
C10_ProbeBoxThree ==
    (branch = "active" /\ found) =>
        (surrounded <=> ProbesOffField(frame, Grow(ball, 3)))

\* C10 as amended: the probe box is the ball rect grown by 4 pixels on
\* each side, clamped to the screen (one expansion in step, three in
\* isBallSurrounded).
C10_ProbeBoxFour ==
    (branch = "active" /\ found) =>
        (surrounded <=> ProbesOffField(frame, Grow(ball, 4)))

\* a ball with a line of another colour exactly 4 pixels around it was
\* found surrounded
C10_Witness ==
    branch = "active" /\ found /\ surrounded /\ frame = BallBHalo4

\* C11: on a raster holding one solid w x h block of the target colour,
\* findColorBounds seeded with a 1x1 box on any pixel of the block leaves
\* the rect equal to the block's bounds (x1, y1 one past the last block
\* column and row) and returns true.
C11_BlockBounds ==
    (rets.op = "findColorBounds" /\ args.shape = "block") =>
        /\ rets.rect = Rect(BlockX, BlockY, BlockX + args.w, BlockY + args.h)
        /\ rets.changed

\* C12: findColorBounds run a second time, on the rect its first run left
\* and on the same frame, returns false and leaves that rect as it was.
C12_Idempotent ==
    rets.op = "findColorBoundsAgain" =>
        ~rets.changed /\ rets.rect = rets.first

\* a second run after a first run that moved three sides of its rect
C12_Witness ==
    /\ rets.op = "findColorBoundsAgain"
    /\ rets.first.x0 # args.rect.x0
    /\ rets.first.y0 # args.rect.y0
    /\ rets.first.x1 # args.rect.x1

\* C20: for an input rect with 0 <= x0 < x1 <= width and
\* 0 <= y0 < y1 <= height, the rect findColorBounds leaves contains the
\* input rect: x0 and y0 did not increase, x1 and y1 did not decrease.
C20_OnlyGrows ==
    (rets.op = "findColorBounds" /\ args.shape = "window") =>
        /\ rets.rect.x0 <= args.rect.x0
        /\ rets.rect.y0 <= args.rect.y0
        /\ rets.rect.x1 >= args.rect.x1
        /\ rets.rect.y1 >= args.rect.y1

\* C13: checkForBall seeded on any ball-coloured pixel of the shape
\* returns true for a 5x5 and for a 7x7 diamond or disc of ball colour
\* (corners of the bounding square not ball coloured, edge midpoints ball
\* coloured); it returns false for a solid square of the same size and
\* for any 3x3 ball-coloured region.
C13_Acceptance ==
    rets.op = "checkForBall" =>
        /\ args.shape = "token" => rets.ok
        /\ args.shape = "solid" => ~rets.ok
        /\ args.shape = "small" => ~rets.ok

\* the rect r lies within the raster and is not inside out
Clamped(r) ==
    /\ 0 <= r.x0 /\ r.x0 <= r.x1 /\ r.x1 <= width
    /\ 0 <= r.y0 /\ r.y0 <= r.y1 /\ r.y1 <= height

\* C14: for every rect r of integers (negative coordinates, coordinates
\* beyond the raster and x0 > x1 included) limit(r) satisfies
\* 0 <= x0 <= x1 <= width and 0 <= y0 <= y1 <= height, and limit applied a
\* second time changes nothing.
C14_LimitTotalIdempotent ==
    /\ (rets.op = "rect" /\ rets.trail = <<"limit">>) => Clamped(rets.rect)
    /\ (rets.op = "rect" /\ rets.trail = <<"limit", "limit">>) =>
           rets.rect = rets.before

\* the rect r is not inside out and lies at least one pixel away from
\* every border of the raster
Interior(r) ==
    /\ 1 <= r.x0 /\ r.x0 <= r.x1 /\ r.x1 <= width - 1
    /\ 1 <= r.y0 /\ r.y0 <= r.y1 /\ r.y1 <= height - 1

\* C15 as stated: for every rect strictly inside the raster, expand
\* followed by shrink returns the original rect, and so does shrink
\* followed by expand.
C15_RoundTrip ==
    (/\ rets.op = "rect"
     /\ Interior(args.rect)
     /\ rets.trail \in {<<"expand", "shrink">>, <<"shrink", "expand">>}) =>
        rets.rect = args.rect

\* C15 amended: for every rect strictly inside the raster, expand followed
\* by shrink returns the original rect; shrink followed by expand returns
\* it when the rect is at least 2 pixels wide and 2 pixels high.
C15_RoundTripWide ==
    (rets.op = "rect" /\ Interior(args.rect)) =>
        /\ rets.trail = <<"expand", "shrink">> => rets.rect = args.rect
        /\ (/\ rets.trail = <<"shrink", "expand">>
            /\ Width(args.rect) >= 2
            /\ Height(args.rect) >= 2) => rets.rect = args.rect

\* shrink then expand was applied to an interior rect 2 pixels wide and
\* 2 pixels high
C15_Witness ==
    /\ rets.op = "rect"
    /\ Interior(args.rect)
    /\ rets.trail = <<"shrink", "expand">>
    /\ Width(args.rect) = 2
    /\ Height(args.rect) = 2

\* C19: for all rects a, b, c: a.add(b) gives the same rect as b.add(a),
\* (a.add(b)).add(c) gives the same rect as a.add(b.add(c)), and
\* a.add(a) leaves a unchanged.
C19_UnionAlgebra ==
    rets.op = "add" =>
        /\ rets.ab = rets.ba
        /\ rets.abThenC = rets.aWithBc
        /\ rets.aa = args.a

\* three different rects were united, none of them containing the others
C19_Witness ==
    /\ rets.op = "add"
    /\ args.a # args.b /\ args.b # args.c /\ args.a # args.c
    /\ rets.abThenC \notin {args.a, args.b, args.c, rets.ab}

\* C17: a findBall call that succeeds sets the tracked ball rect to the
\* detected rect and lastBall to the current time, and sets lastBallMove
\* if and only if the detected rect differs from the rect tracked before;
\* a findBall call that fails leaves ball, lastBall and lastBallMove
\* unchanged.
C17_Timestamps ==
    rets.op = "findBall" =>
        IF rets.found
        THEN /\ isBallShape(args.f, rets.ball)
             /\ rets.lastBall = args.t
             /\ rets.lastBallMove =
                    (IF rets.ball # args.ball THEN args.t
                     ELSE args.lastBallMove)
        ELSE /\ rets.ball = args.ball
             /\ rets.lastBall = args.lastBall
             /\ rets.lastBallMove = args.lastBallMove

\* the frame calls cs hold next() exactly once, before everything else
NextOnceFirst(cs) ==
    /\ Len(cs) >= 1
    /\ cs[1] = "next"
    /\ \A i \in 2 .. Len(cs) : cs[i] # "next"

\* C18: every step call, in the bootstrap branch and in the active branch
\* and whatever it returns, calls frame.next() exactly once and before any
\* frame.getPixel of that step, and increases frameCount by exactly one.
C18_TickProtocol ==
    [][\/ UNCHANGED <<gameVars, stepVars, logVars, probeVars>>
       \/ /\ frameCount' = frameCount + 1
          /\ NextOnceFirst(frameLog')]_vars

\* steps of both branches were made, one of them returning false, one of
\* them reading the pixels around a ball it found
C18_Witness ==
    /\ branch = "active"
    /\ ~keepPlaying
    /\ frameLog = <<"next", "findBall", "isBallSurrounded">>
    /\ frameCount >= 3

\* C16: over any sequence of step calls on any frame sequence, every
\* coordinate pair (x, y) the core passes to frame.getPixel satisfies
\* 0 <= x <= width and 0 <= y <= height.
C16_ReadsInRange ==
    pixelBox # NoBox =>
        /\ 0 <= pixelBox.lx /\ pixelBox.hx <= width
        /\ 0 <= pixelBox.ly /\ pixelBox.hy <= height

\* an active step read the pixel column just past the raster (x = width)
\* in its surrounded test
C16_Witness ==
    /\ branch = "active"
    /\ found
    /\ pixelBox.hx = width

\* C21: findColorBounds terminates: on every raster, target colour and
\* input rect within the raster, its do/while loop reaches a pass that
\* changes no side and is left.
C21_Terminates == <>(rets.op = "left")

\* the loop left after the right and bottom sides came back from width
\* and height to the last column and row, and after more passes moved
\* the left and top sides further
C21_Witness ==
    /\ rets.op = "left"
    /\ args.rect.x1 = width /\ rets.rect.x1 = width - 1
    /\ args.rect.y1 = height /\ rets.rect.y1 = height - 1
    /\ rets.rect.x0 < args.rect.x0 - 1
    /\ rets.rect.y0 < args.rect.y0 - 1

\* the rect a contains the rect b
Covers(a, b) ==
    /\ a.x0 <= b.x0 /\ a.y0 <= b.y0
    /\ a.x1 >= b.x1 /\ a.y1 >= b.y1

\* C22: after every step the field satisfies 0 <= x0 <= x1 <= width and
\* 0 <= y0 <= y1 <= height; after a bootstrap step that found a ball the
\* field contains the tracked ball rect; and a bootstrap step taken with
\* an initialized field leaves a field that contains the field before it.
C22_FieldAccumulates ==
    /\ [](Clamped(field))
    /\ []((branch = "bootstrap" /\ found) => Covers(field, ball))
    /\ [][(StepTaken /\ branch' = "bootstrap" /\ field.x1 # 0) =>
              Covers(field', field)]_vars

\* a bootstrap step has added the safety margin to a field gathered from
\* several sightings, the margin stopping at the raster's borders
C22_Witness ==
    /\ branch = "bootstrap" /\ found /\ margin
    /\ field.x0 = 0 /\ field.x1 = width
    /\ field # ball

====
